---- MODULE Spec2Model ----
(***************************************************************************)
(* Influence zones, zone effects and the paleobotanical leaf morph of the  *)
(* Third-Person-Shooter-Game-R3F demo.                                      *)
(*                                                                         *)
(* Real numbers are fixed point: the real x is the integer x * Unit.  Unit *)
(* is chosen so that every value the model computes is exact: the leaf     *)
(* tables are written in hundredths, every blend halves, and the eased     *)
(* progress of a morph has the denominator ProgressOne^3.                  *)
(***************************************************************************)
EXTENDS Integers, Sequences, FiniteSets, TLC

VARIABLES
    zones,              \* InfluenceZoneProvider: useState<InfluenceZone[]>
    playerPosition,     \* InfluenceZoneProvider: useState<THREE.Vector3>
    playerZoneState,    \* InfluenceZoneProvider: useState<PlayerZoneState>
    mounted,            \* the mini visualizer (and its AdaptiveLeafMesh) is mounted
    previousZoneType,   \* AdaptiveLeafMesh: previousZoneType ref
    morphState,         \* AdaptiveLeafMesh: morphStateRef
    showSpores,         \* AdaptiveLeafMesh: showSporesRef
    renderedGeometry,   \* geometry prop of the <mesh> at the last render
    sporesMounted,      \* <SporeEffectMesh> was part of the last render
    prevDominantZone,   \* MiniVisualizerCanvas: prevDominantZoneRef
    visitedZones,       \* MiniVisualizerCanvas: visitedZonesRef
    morphHistory,       \* LeafMorphHistoryProvider: useState<MorphHistory>
    currentMorph,       \* LeafMorphHistoryProvider: useState<LeafProperties>
    clockElapsed,       \* time since the last state.clock.getDelta()
    transitionClock,    \* wall-clock time the running transition has lasted
    jump,               \* the player's jump: isJumping, wait, the timer, the key
    lastOp,             \* the operation that produced this state
    call                \* the last call of a function: its arguments and result

vars == << zones, playerPosition, playerZoneState, mounted, previousZoneType,
           morphState, showSpores, renderedGeometry, sporesMounted,
           prevDominantZone, visitedZones, morphHistory, currentMorph,
           clockElapsed, transitionClock, jump, lastOp, call >>

zoneVars == << zones, playerPosition, playerZoneState >>
leafVars == << previousZoneType, morphState, showSpores, renderedGeometry,
               sporesMounted >>
recordVars == << prevDominantZone, visitedZones >>
historyVars == << morphHistory, currentMorph >>

----------------------------------------------------------------------------
(* Bounds of the model *)

\* Longest zone registry.
MaxZones == 2
\* Longest list of zone ids given to getAccumulatedMorph.
MaxVisits == 2
\* Longest time, in ticks, that the clock runs between two getDelta calls.
MaxElapsed == 2
\* Progress steps between 0.0 and 1.0: morphProgress = k / ProgressOne.
ProgressOne == 3

\* state.clock.getDelta() * 2.0 (progress units per second).
MorphRate == 2
\* Clock ticks per second: one tick adds exactly 1 / ProgressOne of progress.
TicksPerSecond == MorphRate * ProgressOne

\* The fixed-point one.
Unit == 100 * (2 ^ (MaxVisits + 1)) * (ProgressOne ^ 3)
Hundredths(n) == n * (Unit \div 100)

Max(a, b) == IF a >= b THEN a ELSE b
Min(a, b) == IF a <= b THEN a ELSE b

RECURSIVE GCD(_, _)
GCD(a, b) == IF b = 0 THEN a ELSE GCD(b, a % b)

\* x * (1 - w) + y * w for a weight w in [0, 1], exactly: the weight is
\* reduced to lowest terms first, which keeps the products small.
Mix(x, y, w) ==
    LET g == GCD(Unit, w)
        d == Unit \div g
        n == w \div g
    IN  (x * (d - n) + y * n) \div d

----------------------------------------------------------------------------
(* LeafGeometrySystem.ts *)

LeafProps(w, l, p, s, t) ==
    [ width |-> Hundredths(w), length |-> Hundredths(l),
      pointiness |-> Hundredths(p), surface |-> Hundredths(s),
      thickness |-> Hundredths(t) ]

\* NaN, the number that Math.min and Math.max give for an operand that is
\* NaN or undefined: a value apart from every number of the model.
NaN == 0 - 1000 * Unit

\* A variant of clamp with the two bounds exchanged.
clamp_BoundsExchanged(value, min, max) == Min(min, Max(max, value))

\* Math.max(min, Math.min(max, value))
clamp(value, min, max) ==
    IF value = NaN THEN NaN ELSE Max(min, Min(max, value))

\* A variant of clampLeafProperties that clamps the width into the length.
clampLeafProperties_LengthFromWidth(props) ==
    [ width |-> clamp(props.width, 0, Unit),
      length |-> clamp(props.width, Unit \div 2, (3 * Unit) \div 2),
      pointiness |-> clamp(props.pointiness, 0, Unit),
      surface |-> clamp(props.surface, 0, Unit),
      thickness |-> clamp(props.thickness, 0, Unit) ]

clampLeafProperties(props) ==
    [ width |-> clamp(props.width, 0, Unit),
      length |-> clamp(props.length, Unit \div 2, (3 * Unit) \div 2),
      pointiness |-> clamp(props.pointiness, 0, Unit),
      surface |-> clamp(props.surface, 0, Unit),
      thickness |-> clamp(props.thickness, 0, Unit) ]

\* The geometry is a function of the clamped properties alone: it is modelled
\* by the properties its vertices are computed from.
generateLeafGeometry(properties) ==
    [ props |-> clampLeafProperties(properties) ]

\* new THREE.BufferGeometry(): no vertices.
EmptyGeometry == [ vertices |-> "none" ]

ZoneTypes == { "ice", "jump_boost", "damage", "slow", "speed_boost" }

DefaultLeafEntry == LeafProps(50, 100, 50, 30, 10)

conditions(zoneType) ==
    CASE zoneType = "speed_boost" -> LeafProps(80, 120, 20, 50, 12)
      [] zoneType = "jump_boost"  -> LeafProps(30, 150, 80, 80, 18)
      [] zoneType = "ice"         -> LeafProps(40, 80, 60, 90, 15)
      [] zoneType = "slow"        -> LeafProps(60, 90, 30, 20, 20)
      [] zoneType = "damage"      -> LeafProps(20, 60, 90, 100, 8)

\* The keys that conditions, an object literal, inherits from
\* Object.prototype: conditions[key] is the inherited member, not undefined.
InheritedKeys == { "toString", "constructor" }

\* An inherited member read as LeafProperties: it has none of the five
\* properties, each reads as undefined.
InheritedMember ==
    [ width |-> NaN, length |-> NaN, pointiness |-> NaN, surface |-> NaN,
      thickness |-> NaN ]

\* conditions[zoneType] || { the default entry }, clamped.
getLeafPropertiesFromZone(zoneType) ==
    LET baseProps == IF zoneType \in ZoneTypes THEN conditions(zoneType)
                     ELSE IF zoneType \in InheritedKeys THEN InheritedMember
                     ELSE DefaultLeafEntry
    IN  clampLeafProperties(baseProps)

\* A variant of smoothstep with a wrong cubic term and no saturation at 1.
smoothstep_NoSaturation(progress) ==
    IF progress <= 0 THEN 0
    ELSE progress * progress * (3 * ProgressOne - progress)

\* THREE.MathUtils.smoothstep(x, 0, 1), as a numerator over ProgressOne^3:
\* 0 at or below 0, 1 at or above 1, x * x * (3 - 2 * x) in between.
smoothstep(progress) ==
    IF progress <= 0 THEN 0
    ELSE IF progress >= ProgressOne THEN ProgressOne ^ 3
    ELSE progress * progress * (3 * ProgressOne - 2 * progress)

\* THREE.MathUtils.lerp(x, y, t) = (1 - t) * x + t * y, t = eased / ProgressOne^3.
lerp(x, y, eased) ==
    (((ProgressOne ^ 3) - eased) * x + eased * y) \div (ProgressOne ^ 3)

morphLeafProperties(fromProps, toProps, progress) ==
    LET eased == smoothstep(progress)
        morphed ==
          [ width |-> lerp(fromProps.width, toProps.width, eased),
            length |-> lerp(fromProps.length, toProps.length, eased),
            pointiness |-> lerp(fromProps.pointiness, toProps.pointiness, eased),
            surface |-> lerp(fromProps.surface, toProps.surface, eased),
            thickness |-> lerp(fromProps.thickness, toProps.thickness, eased) ]
    IN  clampLeafProperties(morphed)

----------------------------------------------------------------------------
(* InfluenceZoneContext.tsx *)

Vec(x, y, z) == [ x |-> x, y |-> y, z |-> z ]

Zone(id, type, position, radius, intensity) ==
    [ id |-> id, type |-> type, position |-> position, radius |-> radius,
      intensity |-> intensity ]

\* The zones a level may register.
ZoneA == Zone("A", "ice", Vec(0, 0, 0), 3, 8)
ZoneB == Zone("B", "speed_boost", Vec(0, 0, 5), 3, 10)
ZoneC == Zone("C", "jump_boost", Vec(3, 4, 0), 5, 6)
\* A second zone of the type of ZoneA.
ZoneD == Zone("D", "ice", Vec(3, 4, 6), 1, 4)
\* A zone whose type neither table has an entry for: addZone takes any object.
ZoneE == Zone("E", "lava", Vec(0, 0, 6), 2, 5)
\* A zone without extent: addZone takes any radius.
ZoneF == Zone("F", "slow", Vec(0, 0, 0), 0, 3)
ZoneCatalogue == { ZoneA, ZoneB, ZoneC, ZoneD, ZoneE, ZoneF }

\* The position samples the tracker may deliver.
PlayerPositions ==
    { Vec(0, 0, 0), Vec(0, 0, 2), Vec(0, 0, 6), Vec(3, 4, 6) }

\* null
Null == [ null |-> TRUE ]

\* THREE.Vector3.distanceTo, squared.
distanceToSquared(a, b) ==
    (a.x - b.x) * (a.x - b.x) + (a.y - b.y) * (a.y - b.y)
      + (a.z - b.z) * (a.z - b.z)

\* A variant of isInside that leaves the boundary out (< for <=).
isInside_Strict(playerPos, zone) ==
    /\ zone.radius >= 0
    /\ distanceToSquared(playerPos, zone.position) < zone.radius * zone.radius

\* distance <= zone.radius: a distance is never negative, so for a radius
\* that is not negative the test is the test of the squares.
isInside(playerPos, zone) ==
    /\ zone.radius >= 0
    /\ distanceToSquared(playerPos, zone.position) <= zone.radius * zone.radius

\* zones.filter(zone => distance <= zone.radius): the zones that contain
\* playerPos, in the order of zs.
RECURSIVE activeZonesOf(_, _)
activeZonesOf(zs, playerPos) ==
    IF zs = << >> THEN << >>
    ELSE IF isInside(playerPos, Head(zs))
         THEN << Head(zs) >> \o activeZonesOf(Tail(zs), playerPos)
         ELSE activeZonesOf(Tail(zs), playerPos)

\* The table effects and its lookup effects[zone.type]; -1 stands for the
\* undefined of a key the table does not have.
effects(type) ==
    CASE type = "ice"         -> Unit \div 2
      [] type = "jump_boost"  -> (3 * Unit) \div 2
      [] type = "damage"      -> 0
      [] type = "slow"        -> (6 * Unit) \div 10
      [] type = "speed_boost" -> (3 * Unit) \div 2
      [] OTHER                -> -1

\* effects[zone.type] || 1: undefined and 0 are both falsy.
getZoneEffect(zone) ==
    LET e == effects(zone.type)
    IN  IF e = -1 \/ e = 0 THEN Unit ELSE e

\* A variant of updatePlayerZones that takes the dominant zone from the end
\* of the active list.
updatePlayerZones_LastActive(zs, playerPos) ==
    LET active == activeZonesOf(zs, playerPos)
        dominant == IF Len(active) > 0 THEN active[Len(active)] ELSE Null
    IN  [ activeZones |-> active,
          isInZone |-> Len(active) > 0,
          dominantZone |-> dominant ]

\* A variant of updatePlayerZones that takes the dominant zone from the
\* registry instead of the active list.
updatePlayerZones_FirstRegistered(zs, playerPos) ==
    LET active == activeZonesOf(zs, playerPos)
        dominant == IF Len(zs) > 0 THEN zs[1] ELSE Null
    IN  [ activeZones |-> active,
          isInZone |-> Len(active) > 0,
          dominantZone |-> dominant ]

\* The PlayerZoneState that updatePlayerZones(playerPos) sets.
updatePlayerZones(zs, playerPos) ==
    LET active == activeZonesOf(zs, playerPos)
        dominant == IF Len(active) > 0 THEN active[1] ELSE Null
    IN  [ activeZones |-> active,
          isInZone |-> Len(active) > 0,
          dominantZone |-> dominant ]

InitialZoneState ==
    [ activeZones |-> << >>, isInZone |-> FALSE, dominantZone |-> Null ]

----------------------------------------------------------------------------
(* LeafMorphHistoryContext.tsx *)

DEFAULT_LEAF == LeafProps(50, 100, 50, 30, 10)

blendLeafProperties(a, b, weightB) ==
    LET w == clamp(weightB, 0, Unit)
    IN  [ width |-> clamp(Mix(a.width, b.width, w), 0, Unit),
          length |-> clamp(Mix(a.length, b.length, w), Unit \div 2, (3 * Unit) \div 2),
          pointiness |-> clamp(Mix(a.pointiness, b.pointiness, w), 0, Unit),
          surface |-> clamp(Mix(a.surface, b.surface, w), 0, Unit),
          thickness |-> clamp(Mix(a.thickness, b.thickness, w), 0, Unit) ]

\* A variant of recordZoneMorph without the spread of the previous history.
recordZoneMorph_WithoutSpread(history, zoneId, props) ==
    [ id \in { zoneId } |-> props ]

\* { ...prev, [zoneId]: props }
recordZoneMorph(history, zoneId, props) ==
    [ id \in (DOMAIN history) \cup { zoneId } |->
        IF id = zoneId THEN props ELSE history[id] ]

\* The loop of getAccumulatedMorph over zoneIds, from the accumulator acc.
RECURSIVE accumulate(_, _, _)
accumulate(history, zoneIds, acc) ==
    IF zoneIds = << >> THEN acc
    ELSE IF Head(zoneIds) \in DOMAIN history
         THEN accumulate(history, Tail(zoneIds),
                         blendLeafProperties(acc, history[Head(zoneIds)], Unit \div 2))
         ELSE accumulate(history, Tail(zoneIds), acc)

\* A variant of getAccumulatedMorph that folds from the current morph
\* instead of DEFAULT_LEAF.
getAccumulatedMorph_FromCurrent(history, current, zoneIds) ==
    IF Len(zoneIds) = 0 THEN current
    ELSE accumulate(history, zoneIds, current)

\* The value getAccumulatedMorph(zoneIds) returns.
getAccumulatedMorph(history, current, zoneIds) ==
    IF Len(zoneIds) = 0 THEN current
    ELSE accumulate(history, zoneIds, DEFAULT_LEAF)

EmptyHistory == << >>

----------------------------------------------------------------------------
(* AdaptiveLeafMesh.tsx *)

InitialMorphState ==
    [ currentLeafGeometry |-> EmptyGeometry,
      targetLeafGeometry |-> EmptyGeometry,
      morphProgress |-> 0,
      isTransitioning |-> FALSE ]

\* A variant of zoneChangeEffect that takes the source of a transition that
\* interrupts another from the interpolated properties of the moment.
zoneChangeEffect_SourceFromLive(zoneType, prev, ms, spores) ==
    IF zoneType = prev
    THEN [ previousZoneType |-> prev, morphState |-> ms, showSpores |-> spores ]
    ELSE LET currentProps ==
               IF ms.isTransitioning
               THEN morphLeafProperties(ms.currentLeafGeometry.props,
                                        ms.targetLeafGeometry.props,
                                        ms.morphProgress)
               ELSE getLeafPropertiesFromZone(IF prev = "" THEN "default" ELSE prev)
             targetProps == getLeafPropertiesFromZone(zoneType)
         IN  [ previousZoneType |-> zoneType,
               morphState |->
                 [ currentLeafGeometry |-> generateLeafGeometry(currentProps),
                   targetLeafGeometry |-> generateLeafGeometry(targetProps),
                   morphProgress |-> 0,
                   isTransitioning |-> TRUE ],
               showSpores |-> TRUE ]

\* A variant of zoneChangeEffect that compares the new type with
\* previousZoneType.current || 'default'.
zoneChangeEffect_EmptyIsDefault(zoneType, prev, ms, spores) ==
    IF zoneType = (IF prev = "" THEN "default" ELSE prev)
    THEN [ previousZoneType |-> prev, morphState |-> ms, showSpores |-> spores ]
    ELSE LET currentProps ==
               getLeafPropertiesFromZone(IF prev = "" THEN "default" ELSE prev)
             targetProps == getLeafPropertiesFromZone(zoneType)
         IN  [ previousZoneType |-> zoneType,
               morphState |->
                 [ currentLeafGeometry |-> generateLeafGeometry(currentProps),
                   targetLeafGeometry |-> generateLeafGeometry(targetProps),
                   morphProgress |-> 0,
                   isTransitioning |-> TRUE ],
               showSpores |-> TRUE ]

\* A variant of zoneChangeEffect without the early return: every run of the
\* effect starts a transition.
zoneChangeEffect_NoGuard(zoneType, prev, ms, spores) ==
    LET currentProps ==
          getLeafPropertiesFromZone(IF prev = "" THEN "default" ELSE prev)
        targetProps == getLeafPropertiesFromZone(zoneType)
    IN  [ previousZoneType |-> zoneType,
          morphState |->
            [ currentLeafGeometry |-> generateLeafGeometry(currentProps),
              targetLeafGeometry |-> generateLeafGeometry(targetProps),
              morphProgress |-> 0,
              isTransitioning |-> TRUE ],
          showSpores |-> TRUE ]

\* A variant of zoneChangeEffect whose source geometry is generated from the
\* new zone type.
zoneChangeEffect_SourceFromNew(zoneType, prev, ms, spores) ==
    IF zoneType = prev
    THEN [ previousZoneType |-> prev, morphState |-> ms, showSpores |-> spores ]
    ELSE LET targetProps == getLeafPropertiesFromZone(zoneType)
         IN  [ previousZoneType |-> zoneType,
               morphState |->
                 [ currentLeafGeometry |-> generateLeafGeometry(targetProps),
                   targetLeafGeometry |-> generateLeafGeometry(targetProps),
                   morphProgress |-> 0,
                   isTransitioning |-> TRUE ],
               showSpores |-> TRUE ]

\* The useEffect on [zoneType]: the refs after it has run.
zoneChangeEffect(zoneType, prev, ms, spores) ==
    IF zoneType = prev
    THEN [ previousZoneType |-> prev, morphState |-> ms, showSpores |-> spores ]
    ELSE LET currentProps ==
               getLeafPropertiesFromZone(IF prev = "" THEN "default" ELSE prev)
             targetProps == getLeafPropertiesFromZone(zoneType)
         IN  [ previousZoneType |-> zoneType,
               morphState |->
                 [ currentLeafGeometry |-> generateLeafGeometry(currentProps),
                   targetLeafGeometry |-> generateLeafGeometry(targetProps),
                   morphProgress |-> 0,
                   isTransitioning |-> TRUE ],
               showSpores |-> TRUE ]

\* A variant of advanceMorph that saturates morphProgress at 1.0 and leaves
\* isTransitioning set.
advanceMorph_FlagStaysSet(ms, spores, delta) ==
    IF ms.isTransitioning
    THEN LET progress ==
               ms.morphProgress + (delta * MorphRate * ProgressOne) \div TicksPerSecond
         IN  IF progress >= ProgressOne
             THEN [ morphState |-> [ ms EXCEPT !.morphProgress = ProgressOne ],
                    showSpores |-> FALSE ]
             ELSE [ morphState |-> [ ms EXCEPT !.morphProgress = progress ],
                    showSpores |-> spores ]
    ELSE [ morphState |-> ms, showSpores |-> spores ]

\* A variant of advanceMorph that ends the transition without setting
\* morphProgress back to 1.0.
advanceMorph_NoSaturation(ms, spores, delta) ==
    IF ms.isTransitioning
    THEN LET progress ==
               ms.morphProgress + (delta * MorphRate * ProgressOne) \div TicksPerSecond
         IN  IF progress >= ProgressOne
             THEN [ morphState |-> [ ms EXCEPT !.morphProgress = progress,
                                               !.isTransitioning = FALSE ],
                    showSpores |-> FALSE ]
             ELSE [ morphState |-> [ ms EXCEPT !.morphProgress = progress ],
                    showSpores |-> spores ]
    ELSE [ morphState |-> ms, showSpores |-> spores ]

\* The useFrame callback, given delta = state.clock.getDelta() in clock ticks:
\* morphProgress += delta * 2.0, saturating at 1.0.
advanceMorph(ms, spores, delta) ==
    IF ms.isTransitioning
    THEN LET progress ==
               ms.morphProgress + (delta * MorphRate * ProgressOne) \div TicksPerSecond
         IN  IF progress >= ProgressOne
             THEN [ morphState |-> [ ms EXCEPT !.morphProgress = ProgressOne,
                                               !.isTransitioning = FALSE ],
                    showSpores |-> FALSE ]
             ELSE [ morphState |-> [ ms EXCEPT !.morphProgress = progress ],
                    showSpores |-> spores ]
    ELSE [ morphState |-> ms, showSpores |-> spores ]

\* The JSX the component returns: the geometry given to <mesh>, and whether
\* <SporeEffectMesh> is part of it.
renderLeaf(ms, spores) ==
    [ geometry |-> ms.currentLeafGeometry,
      spores |-> spores /\ ms.morphProgress < ProgressOne ]

----------------------------------------------------------------------------
(* ZoneMiniVisualizerWithHistory.tsx *)

\* prevDominantZoneRef.current = null: equal to no zone id.
NoZoneId == "null"

\* dominantZone?.type || 'default'
currentZoneType(dominantZone) ==
    IF dominantZone = Null \/ dominantZone.type = "" THEN "default"
    ELSE dominantZone.type

\* The record useEffect on [dominantZone] calls recordZoneMorph.
recordsMorph(dominantZone, prevId) ==
    /\ dominantZone # Null
    /\ prevId # dominantZone.id

----------------------------------------------------------------------------
(* modules/player/jump.ts *)

\* Most impulses counted for one press of the jump key.
MaxImpulses == 2

\* The state handleJump is called with and writes through its setters, the
\* pending setTimeout, and the jump key: whether it is down and how many
\* impulses were applied since it went down.
InitialJump ==
    [ isJumping |-> FALSE, wait |-> FALSE, timer |-> FALSE, pressed |-> FALSE,
      impulses |-> 0 ]

\* A variant of jumpForce with the base impulse of before, 1.3.
jumpForce_OldBase(jumpBoostMultiplier) == (13 * jumpBoostMultiplier) \div 10

\* 1.8 * jumpBoostMultiplier
jumpForce(jumpBoostMultiplier) == (18 * jumpBoostMultiplier) \div 10

\* A variant of handleJump whose first condition leaves out !wait.
handleJump_WithoutWait(jumpPressed, isGrounded, wait, isJumping, controls, jumpBoostMultiplier) ==
    LET jumps == jumpPressed /\ isGrounded /\ ~isJumping
        lands == isGrounded /\ wait /\ ~isJumping
    IN  [ jumps |-> jumps,
          isJumping |-> IF jumps THEN TRUE ELSE isJumping,
          wait |-> IF jumps THEN TRUE ELSE IF lands THEN FALSE ELSE wait,
          impulse |-> IF jumps /\ controls
                      THEN Vec(0, jumpForce(jumpBoostMultiplier), 0)
                      ELSE Null ]

\* handleJump: what one call sets, and the impulse it applies (null when it
\* applies none).  controls is controls.current being set.
handleJump(jumpPressed, isGrounded, wait, isJumping, controls, jumpBoostMultiplier) ==
    LET jumps == jumpPressed /\ isGrounded /\ ~wait /\ ~isJumping
        lands == isGrounded /\ wait /\ ~isJumping
    IN  [ jumps |-> jumps,
          isJumping |-> IF jumps THEN TRUE ELSE isJumping,
          wait |-> IF jumps THEN TRUE ELSE IF lands THEN FALSE ELSE wait,
          impulse |-> IF jumps /\ controls
                      THEN Vec(0, jumpForce(jumpBoostMultiplier), 0)
                      ELSE Null ]

\* The multipliers handleJump is called with: 1.0, which is also the default
\* of the parameter, the 1.5 of a jump_boost zone and the 0.5 of an ice zone.
JumpMultipliers == { Unit, (3 * Unit) \div 2, Unit \div 2 }

----------------------------------------------------------------------------
(* Inputs *)

\* Leaf properties outside the valid ranges, above and below.
LeafTooLarge == LeafProps(140, 200, 110, 150, 120)
LeafTooSmall == LeafProps(-20, 30, -10, -50, -5)
\* The corners of the valid ranges.
LeafLowest == LeafProps(0, 50, 0, 0, 0)
LeafHighest == LeafProps(100, 150, 100, 100, 100)

\* The property sets a caller may record.
HistorySamples ==
    { getLeafPropertiesFromZone("speed_boost"),
      getLeafPropertiesFromZone("jump_boost"), LeafTooLarge, LeafTooSmall }

\* The property sets a caller may morph between.
LeafSamples ==
    { getLeafPropertiesFromZone(t) : t \in ZoneTypes \cup { "default" } }
      \cup { LeafLowest, LeafHighest, LeafTooLarge, LeafTooSmall }

\* The zone ids a caller of the history may name.
HistoryIds == { "speed_boost", "jump_boost" }

\* The zone ids a caller of getAccumulatedMorph may name: those, and the id
\* of a zone that is never recorded.
QueryIds == HistoryIds \cup { "unvisited" }

\* The lists of ids given to getAccumulatedMorph.
VisitLists == UNION { [ 1..n -> QueryIds ] : n \in 0..MaxVisits }

\* The zone types a caller of getZoneEffect may meet: ZoneType, and a type
\* the table has no entry for.
EffectInputs == ZoneTypes \cup { "lava" }

\* The strings a caller of getLeafPropertiesFromZone may pass.
ZoneTypeStrings == ZoneTypes \cup { "default", "lava", "" } \cup InheritedKeys

----------------------------------------------------------------------------
(* The state after construction *)

Init ==
    /\ zones = << >>
    /\ playerPosition = Vec(0, 0, 0)
    /\ playerZoneState = InitialZoneState
    /\ mounted = FALSE
    /\ previousZoneType = ""
    /\ morphState = InitialMorphState
    /\ showSpores = FALSE
    /\ renderedGeometry = EmptyGeometry
    /\ sporesMounted = FALSE
    /\ prevDominantZone = NoZoneId
    /\ visitedZones = {}
    /\ morphHistory = EmptyHistory
    /\ currentMorph = DEFAULT_LEAF
    /\ clockElapsed = 0
    /\ transitionClock = 0
    /\ jump = InitialJump
    /\ lastOp = "init"
    /\ call = [ op |-> "none" ]

----------------------------------------------------------------------------
(* The application: zone registry, position updates, the mini visualizer *)

\* The wall clock of the transition after the zone-change effect has left
\* the recorded zone type at recorded: a new transition is timed from the
\* last reading of the clock, which is where its first delta starts.
transitionStarted(recorded) ==
    IF recorded # previousZoneType THEN Min(clockElapsed, ProgressOne)
    ELSE transitionClock

\* A commit of the mini visualizer with the zone state pzs: AdaptiveLeafMesh
\* renders from its refs, then the zone-change effect and the record effect
\* run; recordZoneMorph sets provider state, which renders the tree again.
Commit(pzs) ==
    LET dominant == pzs.dominantZone
        leaf == zoneChangeEffect(currentZoneType(dominant), previousZoneType,
                                 morphState, showSpores)
        records == recordsMorph(dominant, prevDominantZone)
        shown == IF records THEN renderLeaf(leaf.morphState, leaf.showSpores)
                 ELSE renderLeaf(morphState, showSpores)
    IN  /\ previousZoneType' = leaf.previousZoneType
        /\ morphState' = leaf.morphState
        /\ showSpores' = leaf.showSpores
        /\ renderedGeometry' = shown.geometry
        /\ sporesMounted' = shown.spores
        /\ transitionClock' = transitionStarted(leaf.previousZoneType)
        /\ IF records
           THEN /\ morphHistory' =
                     recordZoneMorph(morphHistory, dominant.id,
                                     getLeafPropertiesFromZone(dominant.type))
                /\ visitedZones' = visitedZones \cup { dominant.id }
                /\ prevDominantZone' = dominant.id
           ELSE UNCHANGED << morphHistory, visitedZones, prevDominantZone >>

CommitIfMounted(pzs) ==
    IF mounted THEN Commit(pzs)
    ELSE UNCHANGED << leafVars, recordVars, morphHistory, transitionClock >>

\* setZones(prev => [...prev, zone])
addZone(zs, zone) == Append(zs, zone)

\* setZones(prev => prev.filter(z => z.id !== zoneId))
removeZone(zs, zoneId) ==
    LET keep(z) == z.id # zoneId
    IN  SelectSeq(zs, keep)

Mount ==
    /\ ~mounted
    /\ mounted' = TRUE
    /\ Commit(playerZoneState)
    /\ lastOp' = "mount"
    /\ UNCHANGED jump
    /\ UNCHANGED << zoneVars, currentMorph, clockElapsed, call >>

AddZone ==
    \E zone \in ZoneCatalogue :
        /\ Len(zones) < MaxZones
        /\ zones' = addZone(zones, zone)
        /\ CommitIfMounted(playerZoneState)
        /\ lastOp' = "addZone"
        /\ UNCHANGED jump
        /\ UNCHANGED << playerPosition, playerZoneState, mounted, currentMorph,
                        clockElapsed, call >>

RemoveZone ==
    \E zone \in ZoneCatalogue :
        /\ zones' = removeZone(zones, zone.id)
        /\ CommitIfMounted(playerZoneState)
        /\ lastOp' = "removeZone"
        /\ UNCHANGED jump
        /\ UNCHANGED << playerPosition, playerZoneState, mounted, currentMorph,
                        clockElapsed, call >>

UpdatePlayerZones ==
    \E playerPos \in PlayerPositions :
        /\ playerPosition' = playerPos
        /\ playerZoneState' = updatePlayerZones(zones, playerPos)
        /\ CommitIfMounted(playerZoneState')
        /\ lastOp' = "updatePlayerZones"
        /\ UNCHANGED jump
        /\ UNCHANGED << zones, mounted, currentMorph, clockElapsed, call >>

\* Wall-clock time passes.
AdvanceTime ==
    /\ clockElapsed < MaxElapsed
    /\ clockElapsed' = clockElapsed + 1
    /\ transitionClock' = IF morphState.isTransitioning
                          THEN Min(transitionClock + 1, ProgressOne)
                          ELSE transitionClock
    /\ lastOp' = "advanceTime"
    /\ UNCHANGED jump
    /\ UNCHANGED << zoneVars, mounted, leafVars, recordVars, historyVars, call >>

\* The useFrame callback of AdaptiveLeafMesh.
LeafFrame ==
    /\ mounted
    /\ LET next == advanceMorph(morphState, showSpores, clockElapsed)
       IN  /\ morphState' = next.morphState
           /\ showSpores' = next.showSpores
           /\ transitionClock' = IF next.morphState.isTransitioning
                                 THEN transitionClock ELSE 0
    /\ clockElapsed' = 0
    /\ lastOp' = "leafFrame"
    /\ UNCHANGED jump
    /\ UNCHANGED << zoneVars, mounted, previousZoneType, renderedGeometry,
                    sporesMounted, recordVars, historyVars, call >>

\* The useFrame callback of SporeEffectMesh: it reads the same clock.
SporeFrame ==
    /\ sporesMounted
    /\ clockElapsed' = 0
    /\ lastOp' = "sporeFrame"
    /\ UNCHANGED jump
    /\ UNCHANGED << zoneVars, mounted, leafVars, recordVars, historyVars,
                    transitionClock, call >>

Next ==
    \/ Mount
    \/ AddZone
    \/ RemoveZone
    \/ UpdatePlayerZones
    \/ AdvanceTime
    \/ LeafFrame
    \/ SporeFrame

Spec == Init /\ [][Next]_vars

----------------------------------------------------------------------------
(* The zone provider on its own: the registry and the position updates,    *)
(* with no visualizer mounted.                                              *)

NextZones ==
    \/ AddZone
    \/ RemoveZone
    \/ UpdatePlayerZones

SpecZones == Init /\ [][NextZones]_vars

----------------------------------------------------------------------------
(* Normal play: the level's zones are registered once, by ZoneManager, and  *)
(* the registry is left alone from then on.                                 *)

\* The registries of a level with two zones.
LevelRegistries ==
    { registry \in ZoneCatalogue \X ZoneCatalogue : registry[1] # registry[2] }

InitPlay ==
    /\ zones \in LevelRegistries
    /\ playerPosition = Vec(0, 0, 0)
    /\ playerZoneState = InitialZoneState
    /\ mounted = FALSE
    /\ previousZoneType = ""
    /\ morphState = InitialMorphState
    /\ showSpores = FALSE
    /\ renderedGeometry = EmptyGeometry
    /\ sporesMounted = FALSE
    /\ prevDominantZone = NoZoneId
    /\ visitedZones = {}
    /\ morphHistory = EmptyHistory
    /\ currentMorph = DEFAULT_LEAF
    /\ clockElapsed = 0
    /\ transitionClock = 0
    /\ jump = InitialJump
    /\ lastOp = "addZone"
    /\ call = [ op |-> "none" ]

NextPlay ==
    \/ Mount
    \/ UpdatePlayerZones
    \/ AdvanceTime
    \/ LeafFrame
    \/ SporeFrame

SpecPlay == InitPlay /\ [][NextPlay]_vars

----------------------------------------------------------------------------
(* AdaptiveLeafMesh on its own: its parent gives it any zone type *)

\* The values of the zoneType prop: dominantZone?.type || 'default'.
ZoneTypeProps == ZoneTypes \cup { "default" }

\* A render of the component with the prop zoneType, and its effect.
renderWithZoneType(zoneType) ==
    LET shown == renderLeaf(morphState, showSpores)
        leaf == zoneChangeEffect(zoneType, previousZoneType, morphState,
                                 showSpores)
    IN  /\ renderedGeometry' = shown.geometry
        /\ sporesMounted' = shown.spores
        /\ previousZoneType' = leaf.previousZoneType
        /\ morphState' = leaf.morphState
        /\ showSpores' = leaf.showSpores
        /\ transitionClock' = transitionStarted(leaf.previousZoneType)

\* The first render.
MountLeaf ==
    \E zoneType \in ZoneTypeProps :
        /\ ~mounted
        /\ mounted' = TRUE
        /\ renderWithZoneType(zoneType)
        /\ lastOp' = "mount"
        /\ UNCHANGED jump
        /\ UNCHANGED << zoneVars, recordVars, historyVars, clockElapsed, call >>

\* The parent renders again, with the same zone type or another.
SetZoneType ==
    \E zoneType \in ZoneTypeProps :
        /\ mounted
        /\ renderWithZoneType(zoneType)
        /\ lastOp' = "setZoneType"
        /\ UNCHANGED jump
        /\ UNCHANGED << zoneVars, mounted, recordVars, historyVars,
                        clockElapsed, call >>

NextLeaf ==
    \/ MountLeaf
    \/ SetZoneType
    \/ AdvanceTime
    \/ LeafFrame
    \/ SporeFrame

SpecLeaf == Init /\ [][NextLeaf]_vars

\* A frame tick that reads a positive delta from the clock.
TickWithTime == LeafFrame /\ clockElapsed > 0

\* The frame loop keeps running: time keeps passing, and the callback of
\* AdaptiveLeafMesh keeps being called with a positive delta.
SpecLeafTicking ==
    Init /\ [][NextLeaf]_vars /\ WF_vars(AdvanceTime) /\ SF_vars(TickWithTime)

----------------------------------------------------------------------------
(* LeafMorphHistoryProvider on its own: any caller, any arguments *)

RecordZoneMorph ==
    \E zoneId \in HistoryIds, props \in HistorySamples :
        /\ morphHistory' = recordZoneMorph(morphHistory, zoneId, props)
        /\ lastOp' = "recordZoneMorph"
        /\ UNCHANGED jump
        /\ call' = [ op |-> "recordZoneMorph", zoneId |-> zoneId,
                     props |-> props ]
        /\ UNCHANGED << zoneVars, mounted, leafVars, recordVars, currentMorph,
                        clockElapsed, transitionClock >>

\* getAccumulatedMorph(zoneIds): the empty list returns currentMorph and
\* sets nothing; any other list sets currentMorph to the value returned.
GetAccumulatedMorph ==
    \E zoneIds \in VisitLists :
        LET ret == getAccumulatedMorph(morphHistory, currentMorph, zoneIds)
        IN  /\ currentMorph' = ret
            /\ lastOp' = "getAccumulatedMorph"
            /\ UNCHANGED jump
            /\ call' = [ op |-> "getAccumulatedMorph", zoneIds |-> zoneIds,
                         ret |-> ret ]
            /\ UNCHANGED << zoneVars, mounted, leafVars, recordVars,
                            morphHistory, clockElapsed, transitionClock >>

\* A variant of ResetHistory that clears the history and keeps the
\* accumulated morph.
ResetHistory_KeepsCurrentMorph ==
    /\ morphHistory' = EmptyHistory
    /\ currentMorph' = currentMorph
    /\ lastOp' = "resetHistory"
    /\ UNCHANGED jump
    /\ call' = [ op |-> "resetHistory", cleared |-> DOMAIN morphHistory,
                 replaced |-> currentMorph ]
    /\ UNCHANGED << zoneVars, mounted, leafVars, recordVars, clockElapsed,
                    transitionClock >>

ResetHistory ==
    /\ morphHistory' = EmptyHistory
    /\ currentMorph' = DEFAULT_LEAF
    /\ lastOp' = "resetHistory"
    /\ UNCHANGED jump
    /\ call' = [ op |-> "resetHistory", cleared |-> DOMAIN morphHistory,
                 replaced |-> currentMorph ]
    /\ UNCHANGED << zoneVars, mounted, leafVars, recordVars, clockElapsed,
                    transitionClock >>

GetCurrentMorph ==
    /\ lastOp' = "getCurrentMorph"
    /\ UNCHANGED jump
    /\ call' = [ op |-> "getCurrentMorph", ret |-> currentMorph ]
    /\ UNCHANGED << zoneVars, mounted, leafVars, recordVars, historyVars,
                    clockElapsed, transitionClock >>

NextHistory ==
    \/ RecordZoneMorph
    \/ GetAccumulatedMorph
    \/ ResetHistory
    \/ GetCurrentMorph

SpecHistory == Init /\ [][NextHistory]_vars

----------------------------------------------------------------------------
(* The functions on their own: any arguments *)

CallGetZoneEffect ==
    \E type \in EffectInputs :
        LET zone == Zone("Z", type, Vec(0, 0, 0), 1, 10)
        IN  /\ call' = [ op |-> "getZoneEffect", zone |-> zone,
                         ret |-> getZoneEffect(zone) ]
            /\ lastOp' = "getZoneEffect"
            /\ UNCHANGED jump
            /\ UNCHANGED << zoneVars, mounted, leafVars, recordVars,
                            historyVars, clockElapsed, transitionClock >>

CallMorphLeafProperties ==
    \E fromProps \in LeafSamples, toProps \in LeafSamples,
       progress \in 0..ProgressOne :
        /\ call' = [ op |-> "morphLeafProperties", fromProps |-> fromProps,
                     toProps |-> toProps, progress |-> progress,
                     ret |-> morphLeafProperties(fromProps, toProps, progress) ]
        /\ lastOp' = "morphLeafProperties"
        /\ UNCHANGED jump
        /\ UNCHANGED << zoneVars, mounted, leafVars, recordVars, historyVars,
                        clockElapsed, transitionClock >>

CallGetLeafPropertiesFromZone ==
    \E zoneType \in ZoneTypeStrings :
        /\ call' = [ op |-> "getLeafPropertiesFromZone", zoneType |-> zoneType,
                     ret |-> getLeafPropertiesFromZone(zoneType) ]
        /\ lastOp' = "getLeafPropertiesFromZone"
        /\ UNCHANGED jump
        /\ UNCHANGED << zoneVars, mounted, leafVars, recordVars, historyVars,
                        clockElapsed, transitionClock >>

\* clampLeafProperties(props), and clampLeafProperties of what it returned.
CallClampLeafProperties ==
    \E props \in LeafSamples :
        LET ret == clampLeafProperties(props)
        IN  /\ call' = [ op |-> "clampLeafProperties", props |-> props,
                         ret |-> ret, twice |-> clampLeafProperties(ret) ]
            /\ lastOp' = "clampLeafProperties"
            /\ UNCHANGED jump
            /\ UNCHANGED << zoneVars, mounted, leafVars, recordVars,
                            historyVars, clockElapsed, transitionClock >>

NextFunctions ==
    \/ CallGetZoneEffect
    \/ CallMorphLeafProperties
    \/ CallGetLeafPropertiesFromZone
    \/ CallClampLeafProperties

SpecFunctions == Init /\ [][NextFunctions]_vars

----------------------------------------------------------------------------
(* The player's jump on its own: the key, the frame calls, the timer *)

PressJump ==
    /\ ~jump.pressed
    /\ jump' = [ jump EXCEPT !.pressed = TRUE, !.impulses = 0 ]
    /\ lastOp' = "pressJump"
    /\ UNCHANGED << zoneVars, mounted, leafVars, recordVars, historyVars,
                    clockElapsed, transitionClock, call >>

ReleaseJump ==
    /\ jump.pressed
    /\ jump' = [ jump EXCEPT !.pressed = FALSE ]
    /\ lastOp' = "releaseJump"
    /\ UNCHANGED << zoneVars, mounted, leafVars, recordVars, historyVars,
                    clockElapsed, transitionClock, call >>

\* A frame calls handleJump with the state of the moment.
HandleJump ==
    \E isGrounded \in BOOLEAN, controls \in BOOLEAN,
       jumpBoostMultiplier \in JumpMultipliers :
        LET set == handleJump(jump.pressed, isGrounded, jump.wait,
                              jump.isJumping, controls, jumpBoostMultiplier)
        IN  /\ jump' = [ jump EXCEPT
                           !.isJumping = set.isJumping,
                           !.wait = set.wait,
                           !.timer = jump.timer \/ set.jumps,
                           !.impulses = IF set.impulse = Null THEN jump.impulses
                                        ELSE Min(jump.impulses + 1, MaxImpulses) ]
            /\ call' = [ op |-> "handleJump", jumpPressed |-> jump.pressed,
                         isGrounded |-> isGrounded, wait |-> jump.wait,
                         isJumping |-> jump.isJumping,
                         jumpBoostMultiplier |-> jumpBoostMultiplier,
                         impulse |-> set.impulse ]
            /\ lastOp' = "handleJump"
            /\ UNCHANGED << zoneVars, mounted, leafVars, recordVars,
                            historyVars, clockElapsed, transitionClock >>

\* The setTimeout of the jump fires: setIsJumping(false).
JumpTimeout ==
    /\ jump.timer
    /\ jump' = [ jump EXCEPT !.isJumping = FALSE, !.timer = FALSE ]
    /\ lastOp' = "jumpTimeout"
    /\ UNCHANGED << zoneVars, mounted, leafVars, recordVars, historyVars,
                    clockElapsed, transitionClock, call >>

NextJump ==
    \/ PressJump
    \/ ReleaseJump
    \/ HandleJump
    \/ JumpTimeout

SpecJump == Init /\ [][NextJump]_vars

----------------------------------------------------------------------------
(* Claims *)

Range(s) == { s[i] : i \in 1..Len(s) }

\* The indices of the registry whose zone lies within its radius of pos.
Containing(pos) ==
    { i \in 1..Len(zones) :
        (pos.x - zones[i].position.x) * (pos.x - zones[i].position.x)
          + (pos.y - zones[i].position.y) * (pos.y - zones[i].position.y)
          + (pos.z - zones[i].position.z) * (pos.z - zones[i].position.z)
        <= zones[i].radius * zones[i].radius }

\* s is the list of the zones[i] with i in the set of indices, in order.
IsSelection(s, indices) ==
    /\ Len(s) = Cardinality(indices)
    /\ \A k \in 1..Len(s) :
         \E i \in indices :
           /\ Cardinality({ j \in indices : j < i }) = k - 1
           /\ s[k] = zones[i]

\* C1: after updatePlayerZones(p) the active list holds exactly the zones of
\* the registry whose distance from p is at most their radius, the boundary
\* included, in registry order.
C1_ActiveIsExactlyContaining ==
    lastOp = "updatePlayerZones" =>
        IsSelection(playerZoneState.activeZones, Containing(playerPosition))

\* A zone at a distance equal to its radius is active while another zone of
\* the registry, farther away than its radius, is not.
C1_Witness ==
    /\ lastOp = "updatePlayerZones"
    /\ zones = << ZoneB, ZoneC >>
    /\ playerPosition = Vec(0, 0, 2)
    /\ playerZoneState.activeZones = << ZoneB >>

\* C2: after updatePlayerZones(p) with at least one zone containing p, the
\* dominant zone is the containing zone registered first, whatever the
\* distances, radii and intensities; A before B gives A, B before A gives B.
C2_DominantIsFirstRegistered ==
    lastOp = "updatePlayerZones" =>
        /\ \A i \in Containing(playerPosition) :
             (\A j \in Containing(playerPosition) : i <= j)
               => playerZoneState.dominantZone = zones[i]
        /\ (zones = << ZoneA, ZoneB >> /\ playerPosition = Vec(0, 0, 2))
             => playerZoneState.dominantZone = ZoneA
        /\ (zones = << ZoneB, ZoneA >> /\ playerPosition = Vec(0, 0, 2))
             => playerZoneState.dominantZone = ZoneB

\* Both zones contain the position and the one registered first is dominant
\* although the other is nearer.
C2_Witness ==
    /\ lastOp = "updatePlayerZones"
    /\ zones = << ZoneB, ZoneA >>
    /\ playerPosition = Vec(0, 0, 2)
    /\ playerZoneState.activeZones = << ZoneB, ZoneA >>
    /\ playerZoneState.dominantZone = ZoneB

\* C3: in every state the dominant zone is one of the active zones when there
\* are any, it is null exactly when there are none, and isInZone is true
\* exactly when there are some.
C3_ZoneStateConsistent ==
    /\ playerZoneState.activeZones # << >>
         => playerZoneState.dominantZone \in Range(playerZoneState.activeZones)
    /\ playerZoneState.dominantZone = Null
         <=> playerZoneState.activeZones = << >>
    /\ playerZoneState.isInZone <=> playerZoneState.activeZones # << >>

\* The registry changed after the last update and the zone state still names
\* two active zones, the dominant one among them.
C3_Witness ==
    /\ lastOp = "removeZone"
    /\ zones = << >>
    /\ Len(playerZoneState.activeZones) = 2
    /\ playerZoneState.dominantZone = playerZoneState.activeZones[1]

\* The multiplier the effect table is documented to give.
DocumentedEffect(type) ==
    CASE type = "ice"         -> Unit \div 2
      [] type = "jump_boost"  -> (3 * Unit) \div 2
      [] type = "damage"      -> 0
      [] type = "slow"        -> (6 * Unit) \div 10
      [] type = "speed_boost" -> (3 * Unit) \div 2
      [] OTHER                -> Unit

\* C4: getZoneEffect returns 0.5 for ice, 1.5 for jump_boost, 0.0 for damage,
\* 0.6 for slow, 1.5 for speed_boost, and 1.0 for a type without an entry.
C4_EffectTable ==
    call.op = "getZoneEffect" => call.ret = DocumentedEffect(call.zone.type)

\* The properties of the ice (cold) and speed_boost (speed) entries.
IceLeaf == LeafProps(40, 80, 60, 90, 15)
SpeedLeaf == LeafProps(80, 120, 20, 50, 12)

\* The registry is [A, B], the visualizer is mounted and the position was
\* just updated to (0, 0, 2).
C5_AtFirstPosition ==
    /\ mounted
    /\ zones = << ZoneA, ZoneB >>
    /\ lastOp = "updatePlayerZones"
    /\ playerPosition = Vec(0, 0, 2)

C5_FirstResult ==
    /\ playerZoneState.activeZones = << ZoneA, ZoneB >>
    /\ playerZoneState.dominantZone = ZoneA
    /\ getZoneEffect(playerZoneState.dominantZone) = Unit \div 2

C5_SecondResult ==
    /\ playerZoneState.activeZones = << ZoneB >>
    /\ playerZoneState.dominantZone = ZoneB
    /\ getZoneEffect(playerZoneState.dominantZone) = (3 * Unit) \div 2
    /\ morphState.isTransitioning
    /\ morphState.morphProgress = 0
    /\ morphState.currentLeafGeometry = [ props |-> IceLeaf ]
    /\ morphState.targetLeafGeometry = [ props |-> SpeedLeaf ]

\* C5: with the registry [A(ice, (0,0,0), 3), B(speed_boost, (0,0,5), 3)], an
\* update at (0,0,2) gives active [A, B], dominant A, multiplier 0.5; the
\* update at (0,0,6) that follows gives active [B], dominant B, multiplier
\* 1.5, and starts a transition at progress 0 from the ice properties to the
\* speed_boost properties.
C5_EndToEnd ==
    [][ ( /\ C5_AtFirstPosition
          /\ lastOp' = "updatePlayerZones"
          /\ playerPosition' = Vec(0, 0, 6) )
        => (C5_FirstResult /\ C5_SecondResult') ]_vars

\* The second update of the scenario has happened.
C5_Witness ==
    /\ mounted
    /\ zones = << ZoneA, ZoneB >>
    /\ lastOp = "updatePlayerZones"
    /\ playerPosition = Vec(0, 0, 6)
    /\ previousZoneType = "speed_boost"
    /\ prevDominantZone = "B"
    /\ "A" \in visitedZones
    /\ C5_SecondResult

\* Every property lies in its valid range.
InRange(props) ==
    /\ 0 <= props.width /\ props.width <= Unit
    /\ Unit <= 2 * props.length /\ 2 * props.length <= 3 * Unit
    /\ 0 <= props.pointiness /\ props.pointiness <= Unit
    /\ 0 <= props.surface /\ props.surface <= Unit
    /\ 0 <= props.thickness /\ props.thickness <= Unit

\* The value between lo and hi that is nearest to x.
Bounded(x, lo, hi) == IF x < lo THEN lo ELSE IF x > hi THEN hi ELSE x

\* clamp(0.5 * acc + 0.5 * recorded) in every property.
HalfBlend(acc, recorded) ==
    [ width |-> Bounded((acc.width + recorded.width) \div 2, 0, Unit),
      length |-> Bounded((acc.length + recorded.length) \div 2,
                         Unit \div 2, (3 * Unit) \div 2),
      pointiness |-> Bounded((acc.pointiness + recorded.pointiness) \div 2, 0, Unit),
      surface |-> Bounded((acc.surface + recorded.surface) \div 2, 0, Unit),
      thickness |-> Bounded((acc.thickness + recorded.thickness) \div 2, 0, Unit) ]

\* The left fold of HalfBlend over the first n ids of the list.
RECURSIVE LeftFold(_, _, _)
LeftFold(history, zoneIds, n) ==
    IF n = 0 THEN LeafProps(50, 100, 50, 30, 10)
    ELSE HalfBlend(LeftFold(history, zoneIds, n - 1), history[zoneIds[n]])

C7_NothingOutOfRange ==
    /\ \A id \in DOMAIN morphHistory : InRange(morphHistory[id])
    /\ InRange(currentMorph)
    /\ renderedGeometry # EmptyGeometry => InRange(renderedGeometry.props)
    /\ morphState.currentLeafGeometry # EmptyGeometry
         => InRange(morphState.currentLeafGeometry.props)
    /\ morphState.targetLeafGeometry # EmptyGeometry
         => InRange(morphState.targetLeafGeometry.props)

\* C8: for a source and a target within the valid ranges,
\* morphLeafProperties gives the source at progress 0 and the target at
\* progress 1, in every property.
C8_MorphEndpoints ==
    ( /\ call.op = "morphLeafProperties"
      /\ InRange(call.fromProps)
      /\ InRange(call.toProps) )
    => /\ call.progress = 0 => call.ret = call.fromProps
       /\ call.progress = ProgressOne => call.ret = call.toProps

\* A morph between two different property sets was asked for at progress 1.
C8_Witness ==
    /\ call.op = "morphLeafProperties"
    /\ call.fromProps = IceLeaf
    /\ call.toProps = SpeedLeaf
    /\ call.progress = ProgressOne
    /\ call.ret = SpeedLeaf

\* C9: once the transition to zone type T is complete, the geometry the mesh
\* is rendered with is the one generated from T's properties.  Stated for the
\* renders that follow the completion.
C9_RendersTargetWhenComplete ==
    ( /\ mounted
      /\ lastOp = "setZoneType"
      /\ ~morphState.isTransitioning
      /\ morphState.morphProgress = ProgressOne )
    => renderedGeometry =
         [ props |-> IF previousZoneType \in ZoneTypes
                     THEN conditions(previousZoneType)
                     ELSE LeafProps(50, 100, 50, 30, 10) ]

\* A frame tick of a running transition after time has passed.
C10_Tick ==
    /\ lastOp' = "leafFrame"
    /\ morphState.isTransitioning
    /\ clockElapsed > 0

\* C10: morphProgress is always within [0, 1]; a frame tick of a running
\* transition with positive elapsed time strictly increases it; it decreases
\* only when a change of zone type resets it to 0 for a new transition.
C10_ProgressMonotone ==
    /\ [](0 <= morphState.morphProgress /\ morphState.morphProgress <= ProgressOne)
    /\ [][ /\ C10_Tick => morphState'.morphProgress > morphState.morphProgress
           /\ morphState'.morphProgress < morphState.morphProgress
                => /\ morphState'.morphProgress = 0
                   /\ morphState'.isTransitioning
                   /\ previousZoneType' # previousZoneType ]_vars

\* A tick has advanced a transition that is still running.
C10_Witness ==
    /\ lastOp = "leafFrame"
    /\ morphState.isTransitioning
    /\ morphState.morphProgress > 0
    /\ morphState.morphProgress < ProgressOne

\* The Idle state a completed transition ends in.
C11_Idle ==
    /\ ~morphState.isTransitioning
    /\ morphState.morphProgress = ProgressOne

\* C11: a transition that started, and that no change of zone type replaces,
\* reaches Idle with morphProgress exactly 1 and isTransitioning false under
\* repeated frame ticks with positive elapsed time; in Idle no tick changes
\* morphProgress or isTransitioning.
C11_ReachesIdle ==
    /\ \A t \in ZoneTypes \cup { "default" } :
         (morphState.isTransitioning /\ previousZoneType = t)
           ~> (C11_Idle \/ previousZoneType # t)
    /\ [][ (lastOp' = "leafFrame" /\ ~morphState.isTransitioning)
             => /\ morphState'.morphProgress = morphState.morphProgress
                /\ morphState'.isTransitioning = morphState.isTransitioning ]_vars

\* A tick has ended a transition to the type of a zone.
C11_Witness ==
    /\ lastOp = "leafFrame"
    /\ previousZoneType \in ZoneTypes
    /\ C11_Idle
    /\ ~showSpores
    /\ morphState.targetLeafGeometry # EmptyGeometry

\* The leaf properties each zone type is mapped to; any other string is
\* mapped to the default entry.
MappedLeaf(type) ==
    CASE type = "speed_boost" -> SpeedLeaf
      [] type = "jump_boost"  -> LeafProps(30, 150, 80, 80, 18)
      [] type = "ice"         -> IceLeaf
      [] type = "slow"        -> LeafProps(60, 90, 30, 20, 20)
      [] type = "damage"      -> LeafProps(20, 60, 90, 100, 8)
      [] OTHER                -> LeafProps(50, 100, 50, 30, 10)

\* The step renders the mounted visualizer: it supplies a zone type.
C12_Supplies ==
    /\ mounted'
    /\ lastOp' \in { "mount", "updatePlayerZones" }

\* C12: a transition starts exactly when the zone type supplied differs from
\* the recorded one: then progress is 0, the flag is set, the source is the
\* mapping of the recorded type and the target the mapping of the new type;
\* the same type supplied again, also by another zone of that type, changes
\* none of progress, flag, source and target.
C12_StartsIffTypeDiffers ==
    [][ LET dominant == playerZoneState'.dominantZone
            supplied == IF dominant = Null THEN "default" ELSE dominant.type
        IN  /\ (C12_Supplies /\ supplied # previousZoneType)
                 => /\ previousZoneType' = supplied
                    /\ morphState'.morphProgress = 0
                    /\ morphState'.isTransitioning
                    /\ morphState'.currentLeafGeometry =
                         [ props |-> MappedLeaf(previousZoneType) ]
                    /\ morphState'.targetLeafGeometry =
                         [ props |-> MappedLeaf(supplied) ]
            /\ (C12_Supplies /\ supplied = previousZoneType)
                 => /\ previousZoneType' = previousZoneType
                    /\ morphState' = morphState
            /\ ~C12_Supplies
                 => /\ previousZoneType' = previousZoneType
                    /\ morphState'.currentLeafGeometry = morphState.currentLeafGeometry
                    /\ morphState'.targetLeafGeometry = morphState.targetLeafGeometry
                    /\ morphState'.morphProgress >= morphState.morphProgress ]_vars

\* The player went from one ice zone into the other after the transition to
\* ice had ended: the second zone was recorded and no transition started.
C12_Witness ==
    /\ mounted
    /\ lastOp = "updatePlayerZones"
    /\ playerZoneState.dominantZone = ZoneD
    /\ prevDominantZone = "D"
    /\ "A" \in visitedZones
    /\ previousZoneType = "ice"
    /\ C11_Idle /\ morphState.targetLeafGeometry = [ props |-> IceLeaf ]

\* C13: a transition lasts 0.5 s of wall-clock time whatever the frame rate:
\* after every tick of a running transition morphProgress is
\* min(1, 2.0 * the time the transition has lasted), so the tick at which
\* 0.5 s have passed ends it, also while the spore effect reads the clock.
C13_HalfSecondOfWallClock ==
    [][ (lastOp' = "leafFrame" /\ morphState.isTransitioning)
          => /\ morphState'.morphProgress = Min(ProgressOne, transitionClock)
             /\ transitionClock >= ProgressOne => ~morphState'.isTransitioning ]_vars

\* C14: recordZoneMorph(zoneId, props) leaves MorphHistory[zoneId] = props and
\* every other entry as it was; an id not seen before gets a new entry; the
\* same (zoneId, props) recorded again leaves MorphHistory as it is.
C14_RecordIsUpsert ==
    [][ lastOp' = "recordZoneMorph"
          => /\ DOMAIN morphHistory' = DOMAIN morphHistory \cup { call'.zoneId }
             /\ morphHistory'[call'.zoneId] = call'.props
             /\ \A id \in DOMAIN morphHistory :
                  id # call'.zoneId => morphHistory'[id] = morphHistory[id]
             /\ ( /\ call.op = "recordZoneMorph"
                  /\ call'.zoneId = call.zoneId
                  /\ call'.props = call.props )
                => morphHistory' = morphHistory ]_vars

\* An id not seen before was recorded next to an entry that stayed.
C14_Witness ==
    /\ lastOp = "recordZoneMorph"
    /\ call.zoneId = "jump_boost"
    /\ DOMAIN morphHistory = { "speed_boost", "jump_boost" }
    /\ morphHistory["jump_boost"] = call.props
    /\ morphHistory["speed_boost"] = SpeedLeaf
    /\ morphHistory["jump_boost"] # morphHistory["speed_boost"]

\* MorphHistory is empty and the accumulated morph is DEFAULT_LEAF.
C16_Cleared ==
    /\ DOMAIN morphHistory = {}
    /\ currentMorph = LeafProps(50, 100, 50, 30, 10)

C15_RecordsOncePerChange ==
    [][ (mounted /\ lastOp' = "updatePlayerZones")
          => ( prevDominantZone' # prevDominantZone
               <=> /\ playerZoneState'.dominantZone # Null
                   /\ playerZoneState'.dominantZone # playerZoneState.dominantZone ) ]_vars

\* C20: no zone whose type lacks an entry in the effect table or the leaf
\* table is ever in the registry: addZone rejects it and leaves the registry
\* as it was.
C20_UnmappedTypeRejected ==
    \A i \in 1..Len(zones) :
        zones[i].type \in { "ice", "jump_boost", "damage", "slow", "speed_boost" }

\* C17: getLeafPropertiesFromZone returns, for every string, the table entry
\* of a zone type and the default entry {0.5, 1.0, 0.5, 0.3, 0.1} of any
\* other string, and every value it returns is within the valid ranges.
C17_MapperIsTotal ==
    call.op = "getLeafPropertiesFromZone"
      => /\ call.ret = MappedLeaf(call.zoneType)
         /\ InRange(call.ret)

\* C18: clampLeafProperties returns width, pointiness, surface and thickness
\* in [0, 1] and length in [0.5, 1.5]; a value in range is returned as it
\* is, a value above the range becomes the upper bound (width 1.4 becomes
\* 1.0) and a value below it the lower bound.
C18_ClampEnforcesRanges ==
    call.op = "clampLeafProperties"
      => /\ InRange(call.ret)
         /\ call.ret.width = Bounded(call.props.width, 0, Unit)
         /\ call.ret.length =
              Bounded(call.props.length, Hundredths(50), Hundredths(150))
         /\ call.ret.pointiness = Bounded(call.props.pointiness, 0, Unit)
         /\ call.ret.surface = Bounded(call.props.surface, 0, Unit)
         /\ call.ret.thickness = Bounded(call.props.thickness, 0, Unit)
         /\ call.props.width = Hundredths(140) => call.ret.width = Hundredths(100)

\* Properties above every range, width 1.4 among them, were clamped.
C18_Witness ==
    /\ call.op = "clampLeafProperties"
    /\ call.props.width = Hundredths(140)
    /\ call.props.length = Hundredths(200)
    /\ call.ret = LeafProps(100, 150, 100, 100, 100)

\* C19: clampLeafProperties(clampLeafProperties(x)) = clampLeafProperties(x)
\* in every property.
C19_ClampIsIdempotent ==
    call.op = "clampLeafProperties" => call.twice = call.ret

\* Properties below every range were clamped, and clamped again.
C19_Witness ==
    /\ call.op = "clampLeafProperties"
    /\ call.props.width < 0
    /\ call.props.length < Hundredths(50)
    /\ call.ret = LeafProps(0, 50, 0, 0, 0)
    /\ call.twice = LeafProps(0, 50, 0, 0, 0)

\* C21: every zone of the registry has a radius above 0: addZone rejects or
\* corrects a zone whose radius is zero or negative, and no such zone takes
\* part in a distance check.
C21_RadiusIsPositive ==
    \A i \in 1..Len(zones) : zones[i].radius > 0

\* C27: in every state the dominant zone and every active zone are zones of
\* the registry; no removed zone stays dominant or active.
C27_ZoneStateWithinRegistry ==
    /\ playerZoneState.dominantZone # Null
         => playerZoneState.dominantZone \in Range(zones)
    /\ Range(playerZoneState.activeZones) \subseteq Range(zones)

\* The ids a caller of removeZone may name.
C29_Ids == { "A", "B", "C", "D", "E", "F" }

\* C29: addZone appends the zone and keeps the zones before it, removeZone(id)
\* removes exactly the zones with that id and keeps the order of the rest,
\* neither touches the zone state, updatePlayerZones leaves the registry as
\* it is, and activeZones is always a subsequence of the registry in
\* registry order.
C29_RegistryOrderKept ==
    /\ [][ /\ lastOp' = "addZone"
               => /\ Len(zones') = Len(zones) + 1
                  /\ \A i \in 1..Len(zones) : zones'[i] = zones[i]
                  /\ playerZoneState' = playerZoneState
           /\ lastOp' = "removeZone"
               => /\ \E id \in C29_Ids :
                       /\ \A i \in 1..Len(zones') : zones'[i].id # id
                       /\ \E kept \in SUBSET (1..Len(zones)) :
                            /\ \A i \in 1..Len(zones) :
                                 i \in kept <=> zones[i].id # id
                            /\ Len(zones') = Cardinality(kept)
                            /\ \A i \in kept :
                                 zones'[Cardinality({ j \in kept : j <= i })] = zones[i]
                  /\ playerZoneState' = playerZoneState
           /\ lastOp' = "updatePlayerZones" => zones' = zones ]_vars
    /\ [](\E indices \in SUBSET (1..Len(zones)) :
             IsSelection(playerZoneState.activeZones, indices))

\* The fold of HalfBlend over the first n ids of the list, where an id
\* without an entry stands for DEFAULT_LEAF.
RECURSIVE C22_Fold(_, _, _)
C22_Fold(history, zoneIds, n) ==
    IF n = 0 THEN LeafProps(50, 100, 50, 30, 10)
    ELSE HalfBlend(C22_Fold(history, zoneIds, n - 1),
                   IF zoneIds[n] \in DOMAIN history THEN history[zoneIds[n]]
                   ELSE LeafProps(50, 100, 50, 30, 10))

\* C22: getAccumulatedMorph takes a zone id without an entry in MorphHistory
\* as not recorded yet: the fold uses DEFAULT_LEAF for the slot of that id.
C22_UnknownIdIsDefaultSlot ==
    (call.op = "getAccumulatedMorph" /\ call.zoneIds # << >>)
      => call.ret = C22_Fold(morphHistory, call.zoneIds, Len(call.zoneIds))

\* C23: the value getAccumulatedMorph returns depends on the visit list and
\* MorphHistory alone: two calls with the same list and history return the
\* same value whatever was asked before, and the empty list gives
\* DEFAULT_LEAF.
C23_DependsOnListAndHistory ==
    /\ []( (call.op = "getAccumulatedMorph" /\ call.zoneIds = << >>)
             => call.ret = LeafProps(50, 100, 50, 30, 10) )
    /\ [][ ( /\ call.op = "getAccumulatedMorph"
             /\ call'.op = "getAccumulatedMorph"
             /\ call'.zoneIds = call.zoneIds
             /\ morphHistory' = morphHistory )
          => call'.ret = call.ret ]_vars

\* C25: a change of zone type while a transition is in flight (progress
\* below 1) starts the new transition from the mapped properties of the type
\* recorded before, the old target, not from the interpolated value, with
\* progress 0 and the mapped properties of the new type as target.
C25_InterruptionStartsFromOldTarget ==
    [][ ( /\ lastOp' = "setZoneType"
          /\ morphState.isTransitioning
          /\ morphState.morphProgress < ProgressOne
          /\ previousZoneType' # previousZoneType )
        => /\ morphState'.currentLeafGeometry = [ props |-> MappedLeaf(previousZoneType) ]
           /\ morphState.targetLeafGeometry = [ props |-> MappedLeaf(previousZoneType) ]
           /\ morphState'.targetLeafGeometry = [ props |-> MappedLeaf(previousZoneType') ]
           /\ morphState'.morphProgress = 0
           /\ morphState'.isTransitioning ]_vars

\* The transition from the default leaf to ice was in flight, spores shown,
\* when the type changed to speed_boost: the new source is the ice mapping.
C25_Witness ==
    /\ lastOp = "setZoneType"
    /\ previousZoneType = "speed_boost"
    /\ sporesMounted
    /\ renderedGeometry = [ props |-> LeafProps(50, 100, 50, 30, 10) ]
    /\ morphState.currentLeafGeometry = [ props |-> IceLeaf ]
    /\ morphState.targetLeafGeometry = [ props |-> SpeedLeaf ]
    /\ morphState.morphProgress = 0
    /\ morphState.isTransitioning

\* C30: the first zone type a mounted AdaptiveLeafMesh receives, 'default'
\* included, starts a transition, since the recorded type is the empty
\* string: progress 0, transitioning and spores flags set, the source the
\* default leaf properties; the morph is not Idle straight after mount.
C30_MountStartsTransition ==
    /\ ~mounted => previousZoneType = ""
    /\ lastOp = "mount"
         => /\ previousZoneType # ""
            /\ morphState.isTransitioning
            /\ morphState.morphProgress = 0
            /\ showSpores
            /\ morphState.currentLeafGeometry =
                 [ props |-> LeafProps(50, 100, 50, 30, 10) ]
            /\ morphState.targetLeafGeometry =
                 [ props |-> MappedLeaf(previousZoneType) ]

\* The component was mounted with no dominant zone.
C30_Witness ==
    /\ lastOp = "mount"
    /\ mounted
    /\ previousZoneType = "default"
    /\ morphState.isTransitioning
    /\ showSpores
    /\ renderedGeometry = EmptyGeometry

\* C24: the impulse handleJump applies is vertical, x and z are 0, and its
\* magnitude is 1.8 * jumpBoostMultiplier: 1.8 with the multiplier 1.0, 2.7
\* with the 1.5 of a jump_boost zone.
C24_ImpulseIsScaledVertical ==
    (call.op = "handleJump" /\ call.impulse # Null)
      => /\ call.impulse.x = 0
         /\ call.impulse.z = 0
         /\ 10 * call.impulse.y = 18 * call.jumpBoostMultiplier
         /\ call.jumpBoostMultiplier = Hundredths(100)
              => call.impulse.y = Hundredths(180)
         /\ call.jumpBoostMultiplier = Hundredths(150)
              => call.impulse.y = Hundredths(270)

\* A jump in a jump_boost zone.
C24_Witness ==
    /\ lastOp = "handleJump"
    /\ call.jumpBoostMultiplier = Hundredths(150)
    /\ call.impulse # Null
    /\ call.impulse.y = Hundredths(270)
    /\ jump.isJumping

\* C26: while the jump key stays down, handleJump applies one impulse for
\* that press, also after the player has landed and the timer of the jump
\* has fired; a second jump needs the key released and pressed again.
C26_OneImpulsePerPress ==
    jump.pressed => jump.impulses <= 1

\* C28: handleJump applies an impulse only in a call with jumpPressed and
\* isGrounded true and wait and isJumping false, and that call sets both;
\* isJumping is cleared by the timer of the jump alone, and wait only in a
\* call with isGrounded true and isJumping false, so no impulse comes
\* between a jump and those two.
C28_ImpulseNeedsClearedFlags ==
    [][ /\ (lastOp' = "handleJump" /\ call'.impulse # Null)
             => /\ call'.jumpPressed /\ call'.isGrounded
                /\ ~jump.wait /\ ~jump.isJumping
                /\ jump'.wait /\ jump'.isJumping
        /\ (jump.isJumping /\ ~jump'.isJumping) => lastOp' = "jumpTimeout"
        /\ (jump.wait /\ ~jump'.wait)
             => /\ lastOp' = "handleJump"
                /\ call'.isGrounded
                /\ ~jump.isJumping ]_vars

\* After a jump and its timer, a grounded call has cleared wait.
C28_Witness ==
    /\ lastOp = "handleJump"
    /\ call.impulse = Null
    /\ call.isGrounded /\ call.wait /\ ~call.isJumping
    /\ ~jump.wait /\ ~jump.timer
    /\ jump.impulses = 1

====
